---------------------------- MODULE Spec2Model ----------------------------
(***************************************************************************)
(* A model of the LIC Neemuch backend: the server-side rendering handler  *)
(* for GET / in its three copies (src/homePageSSR.js, src/unnamed/part_000 *)
(* and src/unnamed/part_001), its process-local response cache, the       *)
(* rating/review aggregator, the HTML escaper, the star renderer, and the  *)
(* app of the two server entry points (src/server.js and                   *)
(* src/unnamed/part_002): its chain of middleware and routes, its write    *)
(* endpoints and its list routes.                                          *)
(*                                                                         *)
(* Text is modelled as a sequence of tokens.  A token of one character is  *)
(* a character of data (user text, digits, the characters of an entity,    *)
(* a JSON quote); a token of several characters is a chunk of the static   *)
(* markup of the templates, which is the same in every render.  The tokens *)
(* "<" and ">" are never static: markup is always held in chunks.          *)
(***************************************************************************)
EXTENDS Integers, Sequences, FiniteSets, TLC

VARIABLES
    variant,    \* which copy of the SSR module the process has loaded
    now,        \* the wall clock, Date.now(), in ms
    ticks,      \* how often the clock has advanced (bounds the model)
    ratings,    \* the LICRating collection: a sequence of [userId, rating]
    reviews,    \* the LICReview collection: a sequence of [username, comment, createdAt]
    posts,      \* how many writes the store has taken (bounds the model)
    cache,      \* the module's `cache` Map: cacheKey -> html
    pc,         \* per request: where the handler is
    arrived,    \* per request: the time at which the handler began
    key,        \* per request: the handler's cacheKey
    fetched,    \* per request: the ratings the aggregator's first query returned
    snap,       \* per request: the AggregateSnapshot the handler destructured
    res,        \* per request: the response object (status, headers, body, sends)
    path,       \* per request: the handler states passed through, in order
    err,        \* per request: the exception the handler's catch received
    fnIn,       \* input of the pure function under test
    fnOut,      \* its result
    entry,      \* which server entry point the process runs
    indexHtml,  \* whether the static directory holds index.html
    feedbacks,  \* the LICFeedback collection: a sequence of [name, feedback]
    queries,    \* the LICQuery collection: a sequence of [name, query]
    api         \* per request to the app: method, url, body, route, progress, answer

vars == <<variant, now, ticks, ratings, reviews, posts, cache, pc, arrived, key,
          fetched, snap, res, path, err, fnIn, fnOut,
          entry, indexHtml, feedbacks, queries, api>>

---------------------------------------------------------------------------
(* Bounds of the model *)

MaxReq == 2
MaxTicks == 1
MaxPosts == 1
MaxStrLen == 3
MaxRatings == 3
MaxApi == 2

(* Program constants *)

BucketMs == 600000
ReviewLimit == 3

Variants == {"homePageSSR", "part_000", "part_001"}
Requests == 1..MaxReq
Entries == {"server.js", "part_002"}
ApiRequests == 1..MaxApi

---------------------------------------------------------------------------
(* JavaScript values that reach the escaper and the templates *)

JsString(s) == [t |-> "string", v |-> s]
JsNumber(n) == [t |-> "number", v |-> n]
JsUndefined == [t |-> "undefined", v |-> 0]
JsNull == [t |-> "null", v |-> 0]

IsString(x) == x.t = "string"

\* !x : the falsy values among the ones modelled
Falsy(x) ==
    \/ x.t \in {"undefined", "null"}
    \/ x.t = "number" /\ x.v = 0
    \/ x.t = "string" /\ x.v = <<>>

---------------------------------------------------------------------------
(* The static markup of htmlContent, in chunks *)

C_navHero == "<nav class=\"navbar\">...</nav><div class=\"container\"><main>...Welcome to LIC Neemuch..."
C_ratingOpen == "<div class=\"rating-display\"><span>"
C_ratingMid == "</span><span>"
C_ratingOf == "/5 ("
C_ratingClose == " reviews)</span></div>"
C_middle == "</section><section>...Contact Jitendra Patidar...<h2>Recent Reviews</h2>"
C_listOpen == "<ul class=\"review-list\">"
C_itemOpen == "<li class=\"review-item\"><strong>"
C_itemMid == ":</strong> "
C_itemClose == "</li>"
C_listCloseInvite == "</ul><p class=\"content-text\">Want to leave a review or rating? ...</p>"
C_listClose == "</ul>"
C_noReviewsInvite == "<p class=\"content-text\">No reviews yet. Be the first to leave a review ...</p>"
C_noReviews == "<p class=\"content-text\">No reviews yet.</p>"
C_footer == "</section>...</main><footer class=\"footer\">...</footer></div>"

\* the chunks as src/homePageSSR.js's escapeHTML rewrites them (< > " ')
escapeStatic(tok) ==
    CASE tok = C_navHero -> "&lt;nav class=&quot;navbar&quot;&gt;...&lt;/nav&gt;&lt;div class=&quot;container&quot;&gt;&lt;main&gt;...Welcome to LIC Neemuch..."
      [] tok = C_ratingOpen -> "&lt;div class=&quot;rating-display&quot;&gt;&lt;span&gt;"
      [] tok = C_ratingMid -> "&lt;/span&gt;&lt;span&gt;"
      [] tok = C_ratingClose -> " reviews)&lt;/span&gt;&lt;/div&gt;"
      [] tok = C_middle -> "&lt;/section&gt;&lt;section&gt;...Contact Jitendra Patidar...&lt;h2&gt;Recent Reviews&lt;/h2&gt;"
      [] tok = C_listOpen -> "&lt;ul class=&quot;review-list&quot;&gt;"
      [] tok = C_itemOpen -> "&lt;li class=&quot;review-item&quot;&gt;&lt;strong&gt;"
      [] tok = C_itemMid -> ":&lt;/strong&gt; "
      [] tok = C_itemClose -> "&lt;/li&gt;"
      [] tok = C_listCloseInvite -> "&lt;/ul&gt;&lt;p class=&quot;content-text&quot;&gt;Want to leave a review or rating? ...&lt;/p&gt;"
      [] tok = C_listClose -> "&lt;/ul&gt;"
      [] tok = C_noReviewsInvite -> "&lt;p class=&quot;content-text&quot;&gt;No reviews yet. Be the first to leave a review ...&lt;/p&gt;"
      [] tok = C_noReviews -> "&lt;p class=&quot;content-text&quot;&gt;No reviews yet.&lt;/p&gt;"
      [] tok = C_footer -> "&lt;/section&gt;...&lt;/main&gt;&lt;footer class=&quot;footer&quot;&gt;...&lt;/footer&gt;&lt;/div&gt;"
      [] OTHER -> tok

---------------------------------------------------------------------------
(* String.prototype.replace(/c/g, rep): every token equal to the character *)
(* c is replaced by the tokens of rep, left to right, in one pass.          *)

RECURSIVE ReplaceAll(_, _, _)
ReplaceAll(s, c, rep) ==
    IF s = <<>> THEN <<>>
    ELSE (IF Head(s) = c THEN rep ELSE <<Head(s)>>) \o ReplaceAll(Tail(s), c, rep)

AMP == <<"&", "a", "m", "p", ";">>
LT == <<"&", "l", "t", ";">>
GT == <<"&", "g", "t", ";">>
QUOT == <<"&", "q", "u", "o", "t", ";">>
APOS == <<"&", "a", "p", "o", "s", ";">>
NUM39 == <<"&", "#", "3", "9", ";">>

\* src/homePageSSR.js: < > " ' only, and ' becomes &apos;.  This copy is
\* also applied to htmlContent, whose static markup it rewrites as well.
escapeChain_homePageSSR(s) ==
    LET t == ReplaceAll(ReplaceAll(ReplaceAll(ReplaceAll(s, "<", LT), ">", GT), "\"", QUOT), "'", APOS)
    IN  [i \in DOMAIN t |-> escapeStatic(t[i])]

\* part_000 and part_001: & first, then < > " ', and ' becomes &#39;
escapeChain_full(s) ==
    ReplaceAll(ReplaceAll(ReplaceAll(ReplaceAll(ReplaceAll(s, "&", AMP),
        "<", LT), ">", GT), "\"", QUOT), "'", NUM39)

escapeHTML_homePageSSR(x) ==
    IF Falsy(x) \/ ~IsString(x) THEN <<>> ELSE escapeChain_homePageSSR(x.v)

escapeHTML_part_000(x) ==
    IF Falsy(x) \/ ~IsString(x) THEN <<>> ELSE escapeChain_full(x.v)

escapeHTML_part_001(x) ==
    IF Falsy(x) \/ ~IsString(x) THEN <<>> ELSE escapeChain_full(x.v)

escapeHTML(v, x) ==
    CASE v = "homePageSSR" -> escapeHTML_homePageSSR(x)
      [] v = "part_000" -> escapeHTML_part_000(x)
      [] v = "part_001" -> escapeHTML_part_001(x)

---------------------------------------------------------------------------
(* Numbers as text *)

Digits == <<"0", "1", "2", "3", "4", "5", "6", "7", "8", "9">>
Digit(d) == Digits[d + 1]
DigitVal(c) == (CHOOSE i \in 1..10 : Digits[i] = c) - 1

\* String(n) for a non-negative integer n
RECURSIVE Decimal(_)
Decimal(n) == IF n < 10 THEN <<Digit(n)>> ELSE Decimal(n \div 10) \o <<Digit(n % 10)>>

\* Number.prototype.toFixed(1) of the quotient sum/n (sum >= 0, n > 0), as
\* the number of tenths: the nearest tenth, the larger one on a tie.  A tie
\* of sum/n needs n to be a multiple of 4 or of 20; the ties with n < 20 are
\* the quarters, which a double holds exactly, so that the double's toFixed
\* and the exact quotient's agree for every n the model reaches.
\* a toFixed that cut the quotient off after its first decimal
toFixedTenths_truncated(sum, n) == (10 * sum) \div n

toFixedTenths(sum, n) == (20 * sum + n) \div (2 * n)

toFixed1(sum, n) ==
    Decimal(toFixedTenths(sum, n) \div 10) \o <<".">> \o <<Digit(toFixedTenths(sum, n) % 10)>>

\* `${x}` : ToString of an averageRating (a toFixed string, or the number 0
\* of the fallback) or of a count
Interpolate(x) == IF IsString(x) THEN x.v ELSE Decimal(x.v)

\* ToNumber of an averageRating, in tenths: the string "d.d" is parsed
TenthsOf(x) ==
    IF IsString(x)
    THEN 10 * DigitVal(x.v[1]) + DigitVal(x.v[3])
    ELSE 10 * x.v

---------------------------------------------------------------------------
(* The store's queries *)

\* LICReview.find().sort({createdAt: -1}).limit(3): newest first; reviews of
\* equal createdAt are returned in insertion order
RECURSIVE SortNewestFirst(_)
SortNewestFirst(docs) ==
    IF docs = <<>> THEN <<>>
    ELSE LET i == CHOOSE j \in DOMAIN docs :
                      /\ \A k \in DOMAIN docs : docs[k].createdAt <= docs[j].createdAt
                      /\ \A k \in 1..(j - 1) : docs[k].createdAt < docs[j].createdAt
             rest == [k \in 1..(Len(docs) - 1) |-> IF k < i THEN docs[k] ELSE docs[k + 1]]
         IN  <<docs[i]>> \o SortNewestFirst(rest)

Limit(s, n) == IF Len(s) <= n THEN s ELSE SubSeq(s, 1, n)

findLatestReviews(docs) == Limit(SortNewestFirst(docs), ReviewLimit)

---------------------------------------------------------------------------
(* The aggregator, fetchRatingsAndReviews *)

RECURSIVE SumRatings(_)
SumRatings(s) == IF s = <<>> THEN 0 ELSE Head(s).rating + SumRatings(Tail(s))

\* a filter that lets the rating 0 through
IsValidRating_fromZero(r) == r.rating >= 0 /\ r.rating <= 5

IsValidRating(r) == r.rating >= 1 /\ r.rating <= 5

validRatings(rs) == SelectSeq(rs, IsValidRating)

averageRating(rs) ==
    IF Len(validRatings(rs)) # 0
    THEN JsString(toFixed1(SumRatings(validRatings(rs)), Len(validRatings(rs))))
    ELSE JsString(toFixed1(0, 1))

\* the try block: both queries returned
aggregate(rs, revs) ==
    [averageRating |-> averageRating(rs),
     ratingCount |-> Len(validRatings(rs)),
     reviews |-> [i \in DOMAIN revs |->
                    [username |-> revs[i].username,
                     comment |-> revs[i].comment,
                     createdAt |-> revs[i].createdAt]]]

\* the catch block: a query failed
fallbackSnapshot ==
    [averageRating |-> JsNumber(0), ratingCount |-> 0, reviews |-> <<>>]

---------------------------------------------------------------------------
(* The star renderer *)

\* Math.floor in the place of Math.round
MathRoundTenths_floor(t) == t \div 10

\* Math.round: half up
MathRoundTenths(t) == (t + 5) \div 10

renderStars(rating) ==
    LET starCount == MathRoundTenths(TenthsOf(rating))
    IN  [i \in 1..5 |-> IF i - 1 < starCount THEN "*" ELSE "-"]

---------------------------------------------------------------------------
(* JSON.stringify *)

\* the characters of a string inside its JSON quotes: \ and " are escaped,
\* every other character of the alphabet, < > & ' included, is kept
JsonEscape(s) ==
    ReplaceAll(ReplaceAll(s, "\\", <<"\\", "\\">>), "\"", <<"\\", "\"">>)

\* Date.prototype.toISOString of a createdAt, and its part before the 'T':
\* the instant and the day it falls on, as digits
MsPerDay == 86400000
IsoInstant(ms) == Decimal(ms)
IsoDatePart(ms) == Decimal(ms \div MsPerDay)

\* an averageRating as a JSON value: a string in quotes, or the number
JsonAverage(x) ==
    IF IsString(x) THEN <<"\"">> \o JsonEscape(x.v) \o <<"\"">> ELSE Decimal(x.v)

---------------------------------------------------------------------------
(* The page assembler: the templates of router.get('/') *)

metaDescription(s) ==
    <<"Jitendra Patidar, LIC Development Officer in Neemuch, ... Rated ">>
    \o Interpolate(s.averageRating) \o <<"/5 by ">> \o Decimal(s.ratingCount)
    \o <<" clients.">>

\* one entry of structuredData's `review` array, as JSON.stringify writes it
jsonLdReview(r) ==
    <<"{\"@type\":\"Review\",\"author\":{\"@type\":\"Person\",\"name\":\"">>
    \o JsonEscape(r.username)
    \o <<"\"},\"datePublished\":\"">> \o IsoDatePart(r.createdAt)
    \o <<"\",\"reviewBody\":\"">> \o JsonEscape(r.comment) \o <<"\"}">>

\* one entry of initialData.reviews, as JSON.stringify writes it
jsonInitialReview(r) ==
    <<"{\"username\":\"">> \o JsonEscape(r.username)
    \o <<"\",\"comment\":\"">> \o JsonEscape(r.comment)
    \o <<"\",\"createdAt\":\"">> \o IsoInstant(r.createdAt) \o <<"Z\"}">>

RECURSIVE JoinJson(_, _)
JoinJson(items, i) ==
    IF i > Len(items) THEN <<>>
    ELSE (IF i > 1 THEN <<",">> ELSE <<>>) \o items[i] \o JoinJson(items, i + 1)

\* JSON.stringify(structuredData)
structuredData(v, s) ==
    <<"[{\"@context\":\"https://schema.org\",\"@type\":\"Organization\",...},{...\"@type\":\"LocalBusiness\",\"description\":\"">>
    \o JsonEscape(metaDescription(s))
    \o <<"\",...,\"aggregateRating\":{\"@type\":\"AggregateRating\",\"ratingValue\":">>
    \o JsonAverage(s.averageRating)
    \o <<",\"reviewCount\":">> \o Decimal(s.ratingCount)
    \o <<",\"bestRating\":\"5\",\"worstRating\":\"1\"},\"review\":[">>
    \o JoinJson([i \in DOMAIN s.reviews |-> jsonLdReview(s.reviews[i])], 1)
    \o (IF v = "homePageSSR"
        THEN <<"]},{...\"@type\":\"BreadcrumbList\",...},{...\"@type\":\"FAQPage\",...}]">>
        ELSE <<"]}]">>)

\* JSON.stringify(initialData)
initialData(s) ==
    <<"{\"averageRating\":">> \o JsonAverage(s.averageRating)
    \o <<",\"ratingCount\":">> \o Decimal(s.ratingCount)
    \o <<",\"reviews\":[">>
    \o JoinJson([i \in DOMAIN s.reviews |-> jsonInitialReview(s.reviews[i])], 1)
    \o <<"]}">>

\* a guard that asked for an average above 1
showsRating_above1(s) == s.ratingCount > 0 /\ TenthsOf(s.averageRating) > 10

\* ratingCount > 0 && averageRating >= 1
showsRating(s) == s.ratingCount > 0 /\ TenthsOf(s.averageRating) >= 10

ratingDisplay(s) ==
    IF showsRating(s)
    THEN <<C_ratingOpen>> \o renderStars(s.averageRating)
         \o <<C_ratingMid>> \o Interpolate(s.averageRating) \o <<C_ratingOf>>
         \o Decimal(s.ratingCount) \o <<C_ratingClose>>
    ELSE <<>>

RECURSIVE reviewItems(_, _, _)
reviewItems(v, rs, i) ==
    IF i > Len(rs) THEN <<>>
    ELSE <<C_itemOpen>>
         \o escapeHTML(v, JsString(rs[i].username)) \o <<C_itemMid>>
         \o escapeHTML(v, JsString(rs[i].comment)) \o <<C_itemClose>>
         \o reviewItems(v, rs, i + 1)

reviewList(v, s) ==
    IF Len(s.reviews) > 0
    THEN <<C_listOpen>> \o reviewItems(v, s.reviews, 1)
         \o (IF v = "homePageSSR"
             THEN <<C_listCloseInvite>>
             ELSE <<C_listClose>>)
    ELSE IF v = "homePageSSR"
         THEN <<C_noReviewsInvite>>
         ELSE <<C_noReviews>>

htmlContent(v, s) ==
    <<C_navHero>>
    \o ratingDisplay(s)
    \o <<C_middle>>
    \o reviewList(v, s)
    \o <<C_footer>>

\* the document `html`
html(v, s) ==
    CASE v = "homePageSSR" ->
            <<"<!DOCTYPE html><html lang=\"mul\" dir=\"ltr\"><head>...<meta name=\"description\" content=\"">>
            \o escapeHTML(v, JsString(metaDescription(s)))
            \o <<"\">...<meta property=\"og:description\" content=\"">>
            \o escapeHTML(v, JsString(metaDescription(s)))
            \o <<"\">...<meta name=\"twitter:description\" content=\"">>
            \o escapeHTML(v, JsString(metaDescription(s)))
            \o <<"\">...<script type=\"application/ld+json\">">>
            \o structuredData(v, s)
            \o <<"</script><style>...</style></head><body><div id=\"root\" data-html=\"">>
            \o escapeHTML(v, JsString(htmlContent(v, s)))
            \o <<"\">">>
            \o htmlContent(v, s)
            \o <<"</div><script>window.__INITIAL_DATA__ = ">>
            \o initialData(s)
            \o <<";</script><script src=\"/dist/main.js\" defer></script></body></html>">>
      [] v = "part_000" ->
            <<"<!DOCTYPE html><html lang=\"mul\" dir=\"ltr\"><head>...<meta name=\"description\" content=\"">>
            \o escapeHTML(v, JsString(metaDescription(s)))
            \o <<"\">...<script type=\"application/ld+json\">">>
            \o structuredData(v, s)
            \o <<"</script><style>...</style></head><body><div id=\"root\">">>
            \o htmlContent(v, s)
            \o <<"</div><script>window.__INITIAL_DATA__ = ">>
            \o initialData(s)
            \o <<";</script></body></html>">>
      [] v = "part_001" ->
            <<"<!DOCTYPE html><html lang=\"en\"><head>...<meta name=\"description\" content=\"">>
            \o escapeHTML(v, JsString(metaDescription(s)))
            \o <<"\">...<style>...</style></head><body><div id=\"root\">">>
            \o htmlContent(v, s)
            \o <<"</div></body></html>">>

\* the document of the catch block: a template literal with no interpolation
errorHtml(v) ==
    IF v = "homePageSSR"
    THEN <<"<!DOCTYPE html>...<title>Server Error</title>...<div>An error occurred. Please try again later.</div><a href=\"/\">Home</a>...<script src=\"/dist/main.js\" defer></script>...</html>">>
    ELSE <<"<!DOCTYPE html>...<title>Server Error</title><style>...</style>...<div>An error occurred. Please try again later.</div><a href=\"/\" style=\"color: #ffbb00;\">Home</a>...</html>">>

---------------------------------------------------------------------------
(* The response object and its headers *)

\* crypto.createHash('md5').update(doc).digest('hex'): the digest is held
\* symbolically, as the text it was computed from under a tag, so that
\* digests are equal exactly when the digested texts are
md5(doc) == <<"md5:">> \o doc

NoHeaders == [n \in {} |-> <<>>]

setHeader(h, name, value) ==
    [n \in DOMAIN h \cup {name} |-> IF n = name THEN value ELSE h[n]]

NewResponse == [status |-> 200, headers |-> NoHeaders, body |-> <<>>, sends |-> 0]

\* res.send(body) / res.status(code).send(body)
send(r, code, body) ==
    [r EXCEPT !.status = code, !.body = body, !.sends = r.sends + 1]

\* the Cache-Control value of the cache-hit path
cacheControlHit(v) ==
    IF v = "homePageSSR"
    THEN <<"public, max-age=3600, s-maxage=3600, stale-while-revalidate=3600">>
    ELSE <<"public, max-age=600, s-maxage=600, stale-while-revalidate=600">>

\* the Cache-Control value of the fresh path
cacheControlFresh(v) ==
    IF v = "homePageSSR"
    THEN <<"public, max-age=3600, s-maxage=86400, stale-while-revalidate=3600">>
    ELSE <<"public, max-age=600, s-maxage=600, stale-while-revalidate=600">>

\* the headers the cache-hit path sets before res.send(cachedHtml)
hitHeaders(v, h, cachedHtml) ==
    setHeader(setHeader(h, "Cache-Control", cacheControlHit(v)), "ETag", md5(cachedHtml))

\* the headers the fresh path sets before res.status(200).send(html)
freshHeaders(v, h, doc) ==
    setHeader(setHeader(setHeader(h, "Content-Type", <<"text/html">>),
                        "Cache-Control", cacheControlFresh(v)),
              "ETag", md5(doc))

---------------------------------------------------------------------------
(* The response cache *)

\* the handler's cacheKey, from its two readings t1 and t2 of Date.now()
cacheKey(v, t1, t2) ==
    IF v = "homePageSSR" THEN <<"ssr:home">> ELSE <<"ssr:home:", t1 - (t2 % BucketMs)>>

cacheHas(c, k) == k \in DOMAIN c

cacheSet(c, k, doc) == [x \in DOMAIN c \cup {k} |-> IF x = k THEN doc ELSE c[x]]

EmptyCache == [x \in {} |-> <<>>]

---------------------------------------------------------------------------
(* The inputs the model draws from *)

Users == {"u1", "u2"}
RatingValues == {4, 6}
Usernames == {<<"A", "\"">>}
Comments == {<<"o", "k">>, <<"<", "&", "'">>}
\* what the handler may throw: toISOString of an invalid createdAt while the
\* templates are built, createHash where md5 is not available
RangeError == <<"RangeError: Invalid time value">>
HashError == <<"Error: error:0308010C:digital envelope routines::unsupported">>

\* the clock starts two milliseconds before a bucket boundary; it advances
\* by a millisecond while a handler reads it, and by a bucket in between
StartTime == 2 * BucketMs - 2
ClockSteps == {BucketMs}

NoSnapshot == [averageRating |-> JsUndefined, ratingCount |-> 0, reviews |-> <<>>]

---------------------------------------------------------------------------
(* The process: construction *)

InitStore ==
    /\ ratings = <<>>
    /\ reviews = <<>>
    /\ posts = 0

InitHandler ==
    /\ cache = EmptyCache
    /\ pc = [r \in Requests |-> "IDLE"]
    /\ arrived = [r \in Requests |-> 0]
    /\ key = [r \in Requests |-> <<>>]
    /\ fetched = [r \in Requests |-> <<>>]
    /\ snap = [r \in Requests |-> NoSnapshot]
    /\ res = [r \in Requests |-> NewResponse]
    /\ path = [r \in Requests |-> <<>>]
    /\ err = [r \in Requests |-> <<>>]

\* req.body with none of the fields the handlers destructure
EmptyBody ==
    [name |-> JsUndefined, feedback |-> JsUndefined, query |-> JsUndefined,
     username |-> JsUndefined, comment |-> JsUndefined,
     userId |-> JsUndefined, rating |-> JsUndefined]

\* a request to the app that has not arrived
NoExchange ==
    [pc |-> "IDLE", method |-> "", url |-> "", body |-> EmptyBody, route |-> "",
     status |-> 0, json |-> <<>>, found |-> FALSE]

\* the app with no request yet; the router is mounted by app.use('/', ...)
InitApp ==
    /\ feedbacks = <<>>
    /\ queries = <<>>
    /\ api = [q \in ApiRequests |-> NoExchange]

Init ==
    /\ variant \in Variants
    /\ now = StartTime
    /\ ticks = 0
    /\ InitStore
    /\ InitHandler
    /\ fnIn = <<>>
    /\ fnOut = <<>>
    /\ entry = "part_002"
    /\ indexHtml = TRUE
    /\ InitApp

storeVars == <<ratings, reviews, posts>>
handlerVars == <<cache, pc, arrived, key, fetched, snap, res, path, err>>
fnVars == <<fnIn, fnOut>>
apiVars == <<entry, indexHtml, feedbacks, queries, api>>

---------------------------------------------------------------------------
(* The clock *)

Tick(d) ==
    /\ ticks < MaxTicks
    /\ now' = now + d
    /\ ticks' = ticks + 1
    /\ UNCHANGED <<variant, storeVars, handlerVars, fnVars, apiVars>>

---------------------------------------------------------------------------
(* The write endpoints of the API server that the aggregator's reads see *)

\* a handler that saved a new rating document on every request
findOneAndUpdate_insertOnly(rs, u, val) == Append(rs, [userId |-> u, rating |-> val])

\* LICRating.findOneAndUpdate({userId}, {rating}, {upsert: true, new: true})
findOneAndUpdate(rs, u, val) ==
    IF \E i \in DOMAIN rs : rs[i].userId = u
    THEN LET i == CHOOSE j \in DOMAIN rs :
                      rs[j].userId = u /\ \A k \in 1..(j - 1) : rs[k].userId # u
         IN  [rs EXCEPT ![i].rating = val]
    ELSE Append(rs, [userId |-> u, rating |-> val])

\* POST /api/lic/ratings with a body that passes `!userId || !rating`
PostRating(u, val) ==
    /\ posts < MaxPosts
    /\ val # 0
    /\ ratings' = findOneAndUpdate(ratings, u, val)
    /\ posts' = posts + 1
    /\ UNCHANGED <<variant, now, ticks, reviews, handlerVars, fnVars, apiVars>>

\* POST /api/lic/reviews with a body that passes `!username || !comment`;
\* the store stamps createdAt
PostReview(n, c) ==
    /\ posts < MaxPosts
    /\ n # <<>> /\ c # <<>>
    /\ reviews' = Append(reviews, [username |-> n, comment |-> c, createdAt |-> now])
    /\ posts' = posts + 1
    /\ UNCHANGED <<variant, now, ticks, ratings, handlerVars, fnVars, apiVars>>

---------------------------------------------------------------------------
(* router.get('/'): the handler, one action per run between two awaits *)

\* the clock may advance by a millisecond between the two Date.now() of the
\* cacheKey expression; src/homePageSSR.js does not read the clock
ClockReads == IF variant = "homePageSSR" THEN {0} ELSE {0, 1}

\* requests are numbered in the order in which they arrive
Arrives(r) == pc[r] = "IDLE" /\ \A q \in 1..(r - 1) : pc[q] # "IDLE"

\* CHECK_CACHE, hit: headers, ETag, res.send(cachedHtml)
Hit(r, d) ==
    LET k == cacheKey(variant, now, now + d)
    IN  /\ Arrives(r)
        /\ cacheHas(cache, k)
        /\ now' = now + d
        /\ arrived' = [arrived EXCEPT ![r] = now]
        /\ key' = [key EXCEPT ![r] = k]
        /\ res' = [res EXCEPT ![r] =
                     send([res[r] EXCEPT !.headers = hitHeaders(variant, @, cache[k])],
                          res[r].status, cache[k])]
        /\ pc' = [pc EXCEPT ![r] = "RESPOND_CACHED"]
        /\ path' = [path EXCEPT ![r] = <<"CHECK_CACHE", "RESPOND_CACHED">>]
        /\ UNCHANGED <<variant, ticks, storeVars, cache, fetched, snap, err, fnVars, apiVars>>

\* CHECK_CACHE, hit, and the hashing of cachedHtml throws: the statements
\* stand before the try, the handler's promise is rejected and the handler
\* sends nothing
HitThrows(r, d) ==
    LET k == cacheKey(variant, now, now + d)
    IN  /\ Arrives(r)
        /\ cacheHas(cache, k)
        /\ now' = now + d
        /\ arrived' = [arrived EXCEPT ![r] = now]
        /\ key' = [key EXCEPT ![r] = k]
        /\ res' = [res EXCEPT ![r].headers =
                     setHeader(@, "Cache-Control", cacheControlHit(variant))]
        /\ err' = [err EXCEPT ![r] = HashError]
        /\ pc' = [pc EXCEPT ![r] = "REJECTED"]
        /\ path' = [path EXCEPT ![r] = <<"CHECK_CACHE">>]
        /\ UNCHANGED <<variant, ticks, storeVars, cache, fetched, snap, fnVars, apiVars>>

\* CHECK_CACHE, miss: fetchRatingsAndReviews is called and awaits LICRating.find()
Miss(r, d) ==
    LET k == cacheKey(variant, now, now + d)
    IN  /\ Arrives(r)
        /\ ~cacheHas(cache, k)
        /\ now' = now + d
        /\ arrived' = [arrived EXCEPT ![r] = now]
        /\ key' = [key EXCEPT ![r] = k]
        /\ pc' = [pc EXCEPT ![r] = "AGGREGATE_RATINGS"]
        /\ path' = [path EXCEPT ![r] = <<"CHECK_CACHE", "AGGREGATE">>]
        /\ UNCHANGED <<variant, ticks, storeVars, cache, fetched, snap, res, err, fnVars, apiVars>>

\* LICRating.find() returns; the aggregator awaits the reviews query
RatingsReturn(r) ==
    /\ pc[r] = "AGGREGATE_RATINGS"
    /\ fetched' = [fetched EXCEPT ![r] = ratings]
    /\ pc' = [pc EXCEPT ![r] = "AGGREGATE_REVIEWS"]
    /\ UNCHANGED <<variant, now, ticks, storeVars, cache, arrived, key, snap, res, path, err, fnVars, apiVars>>

\* an aggregator without its catch: the failure of the query reaches the
\* handler's catch
RatingsFail_rethrown(r) ==
    /\ pc[r] = "AGGREGATE_RATINGS"
    /\ err' = [err EXCEPT ![r] = <<"MongoNetworkError">>]
    /\ res' = [res EXCEPT ![r] = send(res[r], 500, errorHtml(variant))]
    /\ pc' = [pc EXCEPT ![r] = "RESPOND_ERROR"]
    /\ path' = [path EXCEPT ![r] = @ \o <<"RESPOND_ERROR">>]
    /\ UNCHANGED <<variant, now, ticks, storeVars, cache, arrived, key, fetched, snap, fnVars, apiVars>>

\* LICRating.find() fails: the aggregator's catch returns the fallback
RatingsFail(r) ==
    /\ pc[r] = "AGGREGATE_RATINGS"
    /\ snap' = [snap EXCEPT ![r] = fallbackSnapshot]
    /\ pc' = [pc EXCEPT ![r] = "ASSEMBLE"]
    /\ UNCHANGED <<variant, now, ticks, storeVars, cache, arrived, key, fetched, res, path, err, fnVars, apiVars>>

\* the reviews query returns: the aggregator returns its snapshot
ReviewsReturn(r) ==
    /\ pc[r] = "AGGREGATE_REVIEWS"
    /\ snap' = [snap EXCEPT ![r] = aggregate(fetched[r], findLatestReviews(reviews))]
    /\ pc' = [pc EXCEPT ![r] = "ASSEMBLE"]
    /\ UNCHANGED <<variant, now, ticks, storeVars, cache, arrived, key, fetched, res, path, err, fnVars, apiVars>>

\* the reviews query fails: the aggregator's catch returns the fallback
ReviewsFail(r) ==
    /\ pc[r] = "AGGREGATE_REVIEWS"
    /\ snap' = [snap EXCEPT ![r] = fallbackSnapshot]
    /\ pc' = [pc EXCEPT ![r] = "ASSEMBLE"]
    /\ UNCHANGED <<variant, now, ticks, storeVars, cache, arrived, key, fetched, res, path, err, fnVars, apiVars>>

\* a handler that stamped the document with its cache key
Render_keyed(r) ==
    LET doc == html(variant, snap[r]) \o key[r]
    IN  /\ pc[r] = "ASSEMBLE"
        /\ cache' = cacheSet(cache, key[r], doc)
        /\ res' = [res EXCEPT ![r] =
                     send([res[r] EXCEPT !.headers = freshHeaders(variant, @, doc)], 200, doc)]
        /\ pc' = [pc EXCEPT ![r] = "RESPOND_FRESH"]
        /\ path' = [path EXCEPT ![r] = @ \o <<"ASSEMBLE", "STORE_CACHE", "RESPOND_FRESH">>]
        /\ UNCHANGED <<variant, now, ticks, storeVars, arrived, key, fetched, snap, err, fnVars, apiVars>>

\* the handler resumes: templates, cache.set, headers, res.status(200).send(html)
Render(r) ==
    LET doc == html(variant, snap[r])
    IN  /\ pc[r] = "ASSEMBLE"
        /\ cache' = cacheSet(cache, key[r], doc)
        /\ res' = [res EXCEPT ![r] =
                     send([res[r] EXCEPT !.headers = freshHeaders(variant, @, doc)], 200, doc)]
        /\ pc' = [pc EXCEPT ![r] = "RESPOND_FRESH"]
        /\ path' = [path EXCEPT ![r] = @ \o <<"ASSEMBLE", "STORE_CACHE", "RESPOND_FRESH">>]
        /\ UNCHANGED <<variant, now, ticks, storeVars, arrived, key, fetched, snap, err, fnVars, apiVars>>

\* a catch block that answered with the exception's message after its document
catch_leaky(r, e) == send(r, 500, errorHtml(variant) \o e)

\* the catch block: console.error, res.status(500).send(<error document>)
catch(r, e) == send(r, 500, errorHtml(variant))

\* the handler resumes and building the templates throws: catch
AssembleThrows(r) ==
    /\ pc[r] = "ASSEMBLE"
    /\ err' = [err EXCEPT ![r] = RangeError]
    /\ res' = [res EXCEPT ![r] = catch(res[r], RangeError)]
    /\ pc' = [pc EXCEPT ![r] = "RESPOND_ERROR"]
    /\ path' = [path EXCEPT ![r] = @ \o <<"ASSEMBLE", "RESPOND_ERROR">>]
    /\ UNCHANGED <<variant, now, ticks, storeVars, cache, arrived, key, fetched, snap, fnVars, apiVars>>

\* the handler resumes, the document is built and cached, and the hashing
\* of html throws after the first two headers are set: catch
RespondThrows(r) ==
    LET doc == html(variant, snap[r])
    IN  /\ pc[r] = "ASSEMBLE"
        /\ cache' = cacheSet(cache, key[r], doc)
        /\ err' = [err EXCEPT ![r] = HashError]
        /\ res' = [res EXCEPT ![r] =
                     catch([res[r] EXCEPT !.headers =
                              setHeader(setHeader(@, "Content-Type", <<"text/html">>),
                                        "Cache-Control", cacheControlFresh(variant))], HashError)]
        /\ pc' = [pc EXCEPT ![r] = "RESPOND_ERROR"]
        /\ path' = [path EXCEPT ![r] = @ \o <<"ASSEMBLE", "STORE_CACHE", "RESPOND_ERROR">>]
        /\ UNCHANGED <<variant, now, ticks, storeVars, arrived, key, fetched, snap, fnVars, apiVars>>

---------------------------------------------------------------------------

Next ==
    \/ \E d \in ClockSteps : Tick(d)
    \/ \E u \in Users, val \in RatingValues : PostRating(u, val)
    \/ \E n \in Usernames, c \in Comments : PostReview(n, c)
    \/ \E r \in Requests, d \in ClockReads : Hit(r, d)
    \/ \E r \in Requests, d \in ClockReads : HitThrows(r, d)
    \/ \E r \in Requests, d \in ClockReads : Miss(r, d)
    \/ \E r \in Requests : RatingsReturn(r)
    \/ \E r \in Requests : RatingsFail(r)
    \/ \E r \in Requests : ReviewsReturn(r)
    \/ \E r \in Requests : ReviewsFail(r)
    \/ \E r \in Requests : Render(r)
    \/ \E r \in Requests : AssembleThrows(r)
    \/ \E r \in Requests : RespondThrows(r)

Spec == Init /\ [][Next]_vars

---------------------------------------------------------------------------
(* The app: the chain of middleware and routes of each entry point, in the *)
(* order in which the entry point registers them                           *)

Methods == {"GET", "POST"}

Urls ==
    {"/", "/health", "/reviews",
     "/api/lic/submit-feedback", "/api/lic/feedbacks",
     "/api/lic/submit-query", "/api/lic/queries",
     "/api/lic/reviews", "/api/lic/ratings"}

Pass(name) == [kind |-> "pass", method |-> "", path |-> "", handler |-> name]
Static(mount) == [kind |-> "static", method |-> "GET", path |-> mount, handler |-> "static"]
Route(m, p, h) == [kind |-> "route", method |-> m, path |-> p, handler |-> h]
Router(mount, h) == [kind |-> "router", method |-> "GET", path |-> mount, handler |-> h]

\* src/server.js
Layers_server ==
    << Pass("cors"), Pass("json"), Pass("urlencoded"), Pass("log"),
       Static("/"),
       Route("GET", "/health", "health"),
       Route("GET", "/", "homePageSSR"),
       Route("POST", "/api/lic/submit-feedback", "postSave"),
       Route("POST", "/api/lic/submit-query", "postSave"),
       Route("POST", "/api/lic/reviews", "postSave"),
       Route("POST", "/api/lic/ratings", "postRatings"),
       Route("GET", "*", "shell") >>

\* src/unnamed/part_002
Layers_part_002 ==
    << Route("GET", "/health", "health"),
       Pass("cors"), Pass("json"), Pass("urlencoded"),
       Static("/dist"),
       Router("/", "homePageSSR"),
       Route("POST", "/api/lic/submit-feedback", "postSave"),
       Route("GET", "/api/lic/feedbacks", "getList"),
       Route("POST", "/api/lic/submit-query", "postSave"),
       Route("GET", "/api/lic/queries", "getList"),
       Route("POST", "/api/lic/reviews", "postSave"),
       Route("GET", "/api/lic/reviews", "getList"),
       Route("POST", "/api/lic/ratings", "postRatings"),
       Route("GET", "/api/lic/ratings", "getList"),
       Route("GET", "*", "shell") >>

Layers(e) == IF e = "server.js" THEN Layers_server ELSE Layers_part_002

\* whether a layer answers the request (m, u), hasIndex telling whether the
\* static directory holds index.html.  express.static answers a GET under
\* its mount for which a file exists, "/" standing for index.html; none of
\* the other urls names a file.  The router holds router.get('/') only.
Answers(layer, m, u, hasIndex) ==
    CASE layer.kind = "pass" -> FALSE
      [] layer.kind = "static" -> m = "GET" /\ layer.path = "/" /\ u = "/" /\ hasIndex
      [] layer.kind = "router" -> m = "GET" /\ u = "/"
      [] layer.kind = "route" -> m = layer.method /\ (layer.path = "*" \/ layer.path = u)

\* the handler of the first layer from the i-th on that answers; express
\* answers 404 itself when none does
RECURSIVE dispatchFrom(_, _, _, _, _)
dispatchFrom(ls, i, m, u, hasIndex) ==
    IF i > Len(ls) THEN "notFound"
    ELSE IF Answers(ls[i], m, u, hasIndex) THEN ls[i].handler
    ELSE dispatchFrom(ls, i + 1, m, u, hasIndex)

dispatch(e, m, u, hasIndex) == dispatchFrom(Layers(e), 1, m, u, hasIndex)

---------------------------------------------------------------------------
(* The handlers of the app.  A handler runs from the arrival of its        *)
(* request to its first await or to its response in one step.              *)

\* the two fields a write endpoint requires
Required(u) ==
    CASE u = "/api/lic/submit-feedback" -> <<"name", "feedback">>
      [] u = "/api/lic/submit-query" -> <<"name", "query">>
      [] u = "/api/lic/reviews" -> <<"username", "comment">>
      [] u = "/api/lic/ratings" -> <<"userId", "rating">>

TextValues == {JsUndefined, JsString(<<"A">>)}
UserIdValues == {JsUndefined, JsString(<<"u", "1">>), JsString(<<"u", "2">>)}
RatingBodyValues == {JsUndefined, JsNumber(0), JsNumber(-1), JsNumber(4), JsNumber(6)}

FieldValues(f) ==
    CASE f = "userId" -> UserIdValues
      [] f = "rating" -> RatingBodyValues
      [] OTHER -> TextValues

\* the bodies a client posts to a write endpoint
Bodies(u) ==
    {[EmptyBody EXCEPT ![Required(u)[1]] = a, ![Required(u)[2]] = b] :
        a \in FieldValues(Required(u)[1]), b \in FieldValues(Required(u)[2])}

\* `!a || !b` on the two required fields
MissingField(u, b) == Falsy(b[Required(u)[1]]) \/ Falsy(b[Required(u)[2]])

\* requests are numbered in the order in which they arrive
ApiArrives(q) == api[q].pc = "IDLE" /\ \A p \in 1..(q - 1) : api[p].pc # "IDLE"

Exchange(m, u, b, r) ==
    [NoExchange EXCEPT !.method = m, !.url = u, !.body = b, !.route = r]

\* res.status(code).json(j), res.sendFile(...)
Answer(x, code, j) == [x EXCEPT !.pc = "DONE", !.status = code, !.json = j]

ssrVars == <<variant, now, ticks, storeVars, handlerVars, fnVars>>

\* app.get('/health')
getHealth(q, m, u) ==
    /\ ApiArrives(q)
    /\ dispatch(entry, m, u, indexHtml) = "health"
    /\ api' = [api EXCEPT ![q] = Answer(Exchange(m, u, EmptyBody, "health"), 200, <<"OK">>)]
    /\ UNCHANGED <<ssrVars, entry, indexHtml, feedbacks, queries>>

\* express.static answers with the file
serveStatic(q, m, u) ==
    /\ ApiArrives(q)
    /\ dispatch(entry, m, u, indexHtml) = "static"
    /\ api' = [api EXCEPT ![q] = Answer(Exchange(m, u, EmptyBody, "static"), 200, <<"index.html">>)]
    /\ UNCHANGED <<ssrVars, entry, indexHtml, feedbacks, queries>>

\* app.get('*'): res.sendFile(index.html), which answers 404 without the file
sendShell(q, m, u) ==
    /\ ApiArrives(q)
    /\ dispatch(entry, m, u, indexHtml) = "shell"
    /\ api' = [api EXCEPT ![q] =
                 Answer(Exchange(m, u, EmptyBody, "shell"),
                        IF indexHtml THEN 200 ELSE 404, <<"index.html">>)]
    /\ UNCHANGED <<ssrVars, entry, indexHtml, feedbacks, queries>>

\* the request is handed to router.get('/') of the SSR module
rootSSR(q, m, u) ==
    /\ ApiArrives(q)
    /\ dispatch(entry, m, u, indexHtml) = "homePageSSR"
    /\ api' = [api EXCEPT ![q] = [Exchange(m, u, EmptyBody, "homePageSSR") EXCEPT !.pc = "SSR"]]
    /\ UNCHANGED <<ssrVars, entry, indexHtml, feedbacks, queries>>

\* no layer answers: express answers 404
notFound(q, m, u) ==
    /\ ApiArrives(q)
    /\ dispatch(entry, m, u, indexHtml) = "notFound"
    /\ api' = [api EXCEPT ![q] = Answer(Exchange(m, u, EmptyBody, "notFound"), 404, <<>>)]
    /\ UNCHANGED <<ssrVars, entry, indexHtml, feedbacks, queries>>

\* app.post of submit-feedback, submit-query and reviews: 400 on a missing
\* field, else new Model({...}) and await save()
postSave(q, m, u, b) ==
    /\ ApiArrives(q)
    /\ dispatch(entry, m, u, indexHtml) = "postSave"
    /\ api' = [api EXCEPT ![q] =
                 IF MissingField(u, b)
                 THEN Answer(Exchange(m, u, b, "postSave"), 400, <<"error">>)
                 ELSE [Exchange(m, u, b, "postSave") EXCEPT !.pc = "AWAIT_SAVE"]]
    /\ UNCHANGED <<ssrVars, entry, indexHtml, feedbacks, queries>>

\* a ratings handler whose check let a missing rating through
postRatings_unchecked(q, m, u, b) ==
    /\ ApiArrives(q)
    /\ dispatch(entry, m, u, indexHtml) = "postRatings"
    /\ api' = [api EXCEPT ![q] =
                 IF Falsy(b.userId)
                 THEN Answer(Exchange(m, u, b, "postRatings"), 400, <<"error">>)
                 ELSE [Exchange(m, u, b, "postRatings") EXCEPT !.pc = "AWAIT_UPSERT"]]
    /\ UNCHANGED <<ssrVars, entry, indexHtml, feedbacks, queries>>

\* app.post('/api/lic/ratings'): 400 on `!userId || !rating`, else await
\* LICRating.findOneAndUpdate
postRatings(q, m, u, b) ==
    /\ ApiArrives(q)
    /\ dispatch(entry, m, u, indexHtml) = "postRatings"
    /\ api' = [api EXCEPT ![q] =
                 IF MissingField(u, b)
                 THEN Answer(Exchange(m, u, b, "postRatings"), 400, <<"error">>)
                 ELSE [Exchange(m, u, b, "postRatings") EXCEPT !.pc = "AWAIT_UPSERT"]]
    /\ UNCHANGED <<ssrVars, entry, indexHtml, feedbacks, queries>>

\* app.get of feedbacks, queries, reviews and ratings: await Model.find()
getList(q, m, u) ==
    /\ ApiArrives(q)
    /\ dispatch(entry, m, u, indexHtml) = "getList"
    /\ api' = [api EXCEPT ![q] = [Exchange(m, u, EmptyBody, "getList") EXCEPT !.pc = "AWAIT_FIND"]]
    /\ UNCHANGED <<ssrVars, entry, indexHtml, feedbacks, queries>>

---------------------------------------------------------------------------
(* The store answers the awaited operations *)

\* the LICRating schema declares userId unique: the store never holds two
\* ratings of one userId
userIdUnique == TRUE

HasRating(rs, u) == \E i \in DOMAIN rs : rs[i].userId = u

\* save() of the new document returns: 201
SaveReturns(q) ==
    LET u == api[q].url
        b == api[q].body
        newReview == [username |-> b.username.v, comment |-> b.comment.v, createdAt |-> now]
    IN  /\ api[q].pc = "AWAIT_SAVE"
        /\ feedbacks' = IF u = "/api/lic/submit-feedback"
                        THEN Append(feedbacks, [name |-> b.name.v, feedback |-> b.feedback.v])
                        ELSE feedbacks
        /\ queries' = IF u = "/api/lic/submit-query"
                      THEN Append(queries, [name |-> b.name.v, query |-> b.query.v])
                      ELSE queries
        /\ reviews' = IF u = "/api/lic/reviews" THEN Append(reviews, newReview) ELSE reviews
        /\ api' = [api EXCEPT ![q] =
                     Answer(@, 201, IF u = "/api/lic/reviews" THEN <<newReview>> ELSE <<"submitted">>)]
        /\ UNCHANGED <<variant, now, ticks, ratings, posts, handlerVars, fnVars, entry, indexHtml>>

\* the store runs the query part of the upsert
UpsertLooksUp(q) ==
    /\ api[q].pc = "AWAIT_UPSERT"
    /\ api' = [api EXCEPT ![q].pc = "UPSERT_WRITE",
                          ![q].found = HasRating(ratings, api[q].body.userId.v)]
    /\ UNCHANGED <<ssrVars, entry, indexHtml, feedbacks, queries>>

\* the store runs the write part of the upsert and the handler answers with
\* the document.  Under the unique index an insert that meets a document
\* written since the lookup is retried as an update.
UpsertWrites(q) ==
    LET u == api[q].body.userId.v
        val == api[q].body.rating.v
    IN  /\ api[q].pc = "UPSERT_WRITE"
        /\ ratings' = IF userIdUnique \/ api[q].found
                      THEN findOneAndUpdate(ratings, u, val)
                      ELSE Append(ratings, [userId |-> u, rating |-> val])
        /\ api' = [api EXCEPT ![q] = Answer(@, 200, <<[userId |-> u, rating |-> val]>>)]
        /\ UNCHANGED <<variant, now, ticks, reviews, posts, handlerVars, fnVars,
                       entry, indexHtml, feedbacks, queries>>

\* the insert of the upsert meets a document written since the lookup and
\* the unique index rejects it (E11000): the handler's catch answers 500
UpsertDuplicateKey(q) ==
    /\ api[q].pc = "UPSERT_WRITE"
    /\ userIdUnique
    /\ ~api[q].found
    /\ HasRating(ratings, api[q].body.userId.v)
    /\ api' = [api EXCEPT ![q] = Answer(@, 500, <<"error">>)]
    /\ UNCHANGED <<ssrVars, entry, indexHtml, feedbacks, queries>>

\* the collection a list route reads
Collection(u) ==
    CASE u = "/api/lic/feedbacks" -> feedbacks
      [] u = "/api/lic/queries" -> queries
      [] u = "/api/lic/reviews" -> reviews
      [] u = "/api/lic/ratings" -> ratings

\* find() returns: res.json(documents)
FindReturns(q) ==
    /\ api[q].pc = "AWAIT_FIND"
    /\ api' = [api EXCEPT ![q] = Answer(@, 200, Collection(api[q].url))]
    /\ UNCHANGED <<ssrVars, entry, indexHtml, feedbacks, queries>>

\* the awaited store operation rejects: the handler's catch answers 500
StoreRejects(q) ==
    /\ api[q].pc \in {"AWAIT_SAVE", "AWAIT_UPSERT", "AWAIT_FIND"}
    /\ api' = [api EXCEPT ![q] = Answer(@, 500, <<"error">>)]
    /\ UNCHANGED <<ssrVars, entry, indexHtml, feedbacks, queries>>

SaveUrls == {"/api/lic/submit-feedback", "/api/lic/submit-query", "/api/lic/reviews"}

InitApi ==
    /\ variant = "homePageSSR"
    /\ now = StartTime
    /\ ticks = 0
    /\ InitStore
    /\ InitHandler
    /\ fnIn = <<>>
    /\ fnOut = <<>>
    /\ entry \in Entries
    /\ indexHtml \in BOOLEAN
    /\ InitApp

NextApi ==
    \/ \E q \in ApiRequests, m \in Methods, u \in Urls : getHealth(q, m, u)
    \/ \E q \in ApiRequests, m \in Methods, u \in Urls : serveStatic(q, m, u)
    \/ \E q \in ApiRequests, m \in Methods, u \in Urls : sendShell(q, m, u)
    \/ \E q \in ApiRequests, m \in Methods, u \in Urls : rootSSR(q, m, u)
    \/ \E q \in ApiRequests, m \in Methods, u \in Urls : notFound(q, m, u)
    \/ \E q \in ApiRequests, m \in Methods, u \in SaveUrls :
          \E b \in Bodies(u) : postSave(q, m, u, b)
    \/ \E q \in ApiRequests, m \in Methods : \E b \in Bodies("/api/lic/ratings") :
          postRatings(q, m, "/api/lic/ratings", b)
    \/ \E q \in ApiRequests, m \in Methods, u \in Urls : getList(q, m, u)
    \/ \E q \in ApiRequests : SaveReturns(q)
    \/ \E q \in ApiRequests : UpsertLooksUp(q)
    \/ \E q \in ApiRequests : UpsertWrites(q)
    \/ \E q \in ApiRequests : UpsertDuplicateKey(q)
    \/ \E q \in ApiRequests : FindReturns(q)
    \/ \E q \in ApiRequests : StoreRejects(q)

SpecApi == InitApi /\ [][NextApi]_vars

---------------------------------------------------------------------------
(* What the properties below speak of *)

Responded(r) == pc[r] \in {"RESPOND_CACHED", "RESPOND_FRESH"}
Running(r) == pc[r] \in {"AGGREGATE_RATINGS", "AGGREGATE_REVIEWS", "ASSEMBLE"}
Ended(r) == pc[r] # "IDLE" /\ ~Running(r)

Bucket(t) == t - (t % BucketMs)

\* the aggregator of request r took its catch: only the fallback holds the
\* number 0 as its averageRating
StoreFailed(r) == snap[r] = fallbackSnapshot

Occurs(tok, doc) == \E i \in DOMAIN doc : doc[i] = tok

FullFreshPath == <<"CHECK_CACHE", "AGGREGATE", "ASSEMBLE", "STORE_CACHE", "RESPOND_FRESH">>

---------------------------------------------------------------------------
(* C1: any two GET / requests with the same cache key, hence of the same   *)
(* time bucket, are answered with the same HTML and the same ETag, also    *)
(* when both miss and a write reaches the store between their reads.  The  *)
(* statement is restricted to the copies with time-bucketed keys and to    *)
(* requests whose aggregation succeeded or that were served from the       *)
(* cache; the code violates it already there.                              *)
C1_SameBucketSameDocument ==
    \A r1, r2 \in Requests :
        ( /\ variant # "homePageSSR"
          /\ Responded(r1) /\ Responded(r2)
          /\ key[r1] = key[r2]
          /\ ~StoreFailed(r1) /\ ~StoreFailed(r2) )
        => /\ res[r1].body = res[r2].body
           /\ res[r1].headers["ETag"] = res[r2].headers["ETag"]

(* C2: a request that arrives in a later 10-minute bucket than the request *)
(* that populated the cache entry is not served that entry: whoever is     *)
(* served from the cache arrived in the bucket of the request that         *)
(* rendered the entry.                                                     *)
C2_LaterBucketMisses ==
    \A r1, r2 \in Requests :
        ( /\ pc[r1] = "RESPOND_FRESH"
          /\ pc[r2] = "RESPOND_CACHED"
          /\ key[r1] = key[r2] )
        => Bucket(arrived[r2]) = Bucket(arrived[r1])

(* C3: a request whose handler has ended is in exactly one of the three    *)
(* terminal states and has sent exactly one response; a handler that is    *)
(* still running has sent none.                                            *)
C3_OneTerminalOneResponse ==
    \A r \in Requests :
        /\ Ended(r) =>
              /\ pc[r] \in {"RESPOND_CACHED", "RESPOND_FRESH", "RESPOND_ERROR"}
              /\ res[r].sends = 1
        /\ ~Ended(r) => res[r].sends = 0

(* C4: an exception raised in any state of the handler, the cache-hit path *)
(* included, ends in RESPOND_ERROR with status 500.                        *)
C4_ExceptionGives500 ==
    \A r \in Requests :
        err[r] # <<>> =>
            /\ pc[r] = "RESPOND_ERROR"
            /\ res[r].status = 500
            /\ res[r].sends = 1

(* C5: the body of RESPOND_ERROR is one fixed document: the same for any   *)
(* two failing requests and in every state of store and cache, and holding *)
(* no token of the exception's message nor of a stored review.             *)
C5_ErrorDocumentIsFixed ==
    \A r \in Requests :
        pc[r] = "RESPOND_ERROR" =>
            /\ res[r].status = 500
            /\ res[r].body = errorHtml(variant)
            /\ \A q \in Requests : pc[q] = "RESPOND_ERROR" => res[q].body = res[r].body
            /\ \A i \in DOMAIN err[r] : ~Occurs(err[r][i], res[r].body)
            /\ \A i \in DOMAIN reviews :
                  /\ \A j \in DOMAIN reviews[i].username :
                        ~Occurs(reviews[i].username[j], res[r].body)
                  /\ \A j \in DOMAIN reviews[i].comment :
                        ~Occurs(reviews[i].comment[j], res[r].body)

\* two requests have failed on different exceptions while the store holds a review
C5_Witness ==
    \E r1, r2 \in Requests :
        /\ pc[r1] = "RESPOND_ERROR" /\ pc[r2] = "RESPOND_ERROR"
        /\ err[r1] = RangeError /\ err[r2] = HashError
        /\ reviews # <<>>
        /\ cache # EmptyCache

(* C6: on RESPOND_FRESH and on RESPOND_CACHED alike the handler has set    *)
(* Content-Type: text/html, Cache-Control and ETag, and the ETag is the    *)
(* digest of the body sent.                                                *)
C6_ThreeHeaders ==
    \A r \in Requests :
        Responded(r) =>
            /\ {"Content-Type", "Cache-Control", "ETag"} \subseteq DOMAIN res[r].headers
            /\ res[r].headers["Content-Type"] = <<"text/html">>
            /\ res[r].headers["ETag"] = md5(res[r].body)

(* C7: a failing store query does not take the handler to RESPOND_ERROR:   *)
(* RESPOND_ERROR is entered only from ASSEMBLE or later and only on an     *)
(* exception of the handler's own; a request whose aggregator fell back    *)
(* and whose handler then threw nothing has passed ASSEMBLE and            *)
(* STORE_CACHE, has cached the document of the zero snapshot and has       *)
(* answered it with status 200.                                            *)
C7_StoreFailureIsSwallowed ==
    \A r \in Requests :
        /\ pc[r] = "RESPOND_ERROR" =>
              /\ Occurs("ASSEMBLE", path[r])
              /\ err[r] \in {RangeError, HashError}
        /\ (StoreFailed(r) /\ Ended(r) /\ err[r] = <<>>) =>
              /\ pc[r] = "RESPOND_FRESH"
              /\ path[r] = FullFreshPath
              /\ res[r].status = 200
              /\ res[r].sends = 1
              /\ res[r].body = html(variant, [averageRating |-> JsNumber(0),
                                              ratingCount |-> 0, reviews |-> <<>>])
        /\ (Running(r) /\ pc[r] # "ASSEMBLE") => snap[r] = NoSnapshot

\* a request answered 200 from the fallback while the store held a rating and a cache entry was written
C7_Witness ==
    \E r \in Requests :
        /\ StoreFailed(r)
        /\ pc[r] = "RESPOND_FRESH"
        /\ res[r].status = 200
        /\ cacheHas(cache, key[r])
        /\ ratings # <<>>

(* C8: no document the handler sends holds a raw "<", ">" or "'" : every   *)
(* review field is escaped before it is interpolated, in the review list,  *)
(* in the JSON-LD block and in window.__INITIAL_DATA__ alike.              *)
C8_NoRawReviewText ==
    \A r \in Requests :
        Responded(r) =>
            /\ ~Occurs("<", res[r].body)
            /\ ~Occurs(">", res[r].body)
            /\ ~Occurs("'", res[r].body)

---------------------------------------------------------------------------
(* The pure functions on their own: the escaper of each copy on every      *)
(* string over an alphabet holding the five reserved characters, and the   *)
(* aggregator's arithmetic on every short sequence of ratings              *)

Alphabet == {"a", ";", "&", "<", ">", "\"", "'"}

RECURSIVE StringsUpTo(_)
StringsUpTo(n) ==
    IF n = 0 THEN {<<>>}
    ELSE StringsUpTo(n - 1)
         \cup {Append(s, c) : s \in {t \in StringsUpTo(n - 1) : Len(t) = n - 1}, c \in Alphabet}

EscapeInputs ==
    {JsString(s) : s \in StringsUpTo(MaxStrLen)}
    \cup {JsUndefined, JsNull, JsNumber(0), JsNumber(5)}

RatingDomain == -1..6

RECURSIVE RatingLists(_)
RatingLists(n) ==
    IF n = 0 THEN {<<>>}
    ELSE RatingLists(n - 1)
         \cup {Append(s, [userId |-> "u1", rating |-> x]) :
                  s \in {t \in RatingLists(n - 1) : Len(t) = n - 1}, x \in RatingDomain}

InitIdle ==
    /\ variant \in Variants
    /\ now = StartTime
    /\ ticks = 0
    /\ InitStore
    /\ InitHandler
    /\ fnOut = <<>>
    /\ entry = "part_002"
    /\ indexHtml = TRUE
    /\ InitApp

InitEscape == InitIdle /\ fnIn \in EscapeInputs

\* escapeHTML(str) of the loaded copy
CallEscape ==
    /\ fnOut = <<>>
    /\ fnOut' = <<escapeHTML(variant, fnIn)>>
    /\ UNCHANGED <<variant, now, ticks, storeVars, handlerVars, fnIn, apiVars>>

SpecEscape == InitEscape /\ [][CallEscape]_vars

InitAggregate == InitIdle /\ fnIn \in RatingLists(MaxRatings)

\* the try block of fetchRatingsAndReviews on the ratings fnIn
CallAggregate ==
    /\ fnOut = <<>>
    /\ fnOut' = <<aggregate(fnIn, <<>>)>>
    /\ UNCHANGED <<variant, now, ticks, storeVars, handlerVars, fnIn, apiVars>>

SpecAggregate == InitAggregate /\ [][CallAggregate]_vars

---------------------------------------------------------------------------
\* the entity the claim prescribes for a character, ' as the copy writes it
EntityOf(v, c) ==
    CASE c = "&" -> AMP
      [] c = "<" -> LT
      [] c = ">" -> GT
      [] c = "\"" -> QUOT
      [] c = "'" -> (IF v = "homePageSSR" THEN APOS ELSE NUM39)
      [] OTHER -> <<c>>

RECURSIVE EachEscapedOnce(_, _)
EachEscapedOnce(v, s) ==
    IF s = <<>> THEN <<>> ELSE EntityOf(v, Head(s)) \o EachEscapedOnce(v, Tail(s))

(* C9: in each copy, escapeHTML replaces each of the five reserved         *)
(* characters of its input by its entity, once: the result is the input    *)
(* with every character replaced by its entity and every other character   *)
(* kept; non-string and falsy input gives the empty string.                *)
C9_EscapesAllFive ==
    fnOut # <<>> =>
        IF IsString(fnIn)
        THEN fnOut[1] = EachEscapedOnce(variant, fnIn.v)
        ELSE fnOut[1] = <<>>

---------------------------------------------------------------------------
---------------------------------------------------------------------------
\* the ratings of a list, in order
RatingsOf(rs) == [i \in DOMAIN rs |-> rs[i].rating]

\* the stored ratings that lie in [1,5]
InRange(rs) == SelectSeq(rs, LAMBDA r : r.rating \in 1..5)

(* C17: when at least one stored rating lies in [1,5], averageRating is a  *)
(* string of one digit, a point and one digit, and the number it writes is *)
(* a tenth nearest to the mean of the ratings in [1,5]; for the ratings    *)
(* 5, 5, 4 it is "4.7" and ratingCount is 3.                               *)
C17_MeanToOneDecimal ==
    (fnOut # <<>> /\ InRange(fnIn) # <<>>) =>
        LET x == fnOut[1].averageRating
            n == Len(InRange(fnIn))
            sum == SumRatings(InRange(fnIn))
        IN  /\ IsString(x)
            /\ Len(x.v) = 3 /\ x.v[2] = "."
            /\ \E t \in 10..50 :
                  /\ x.v = <<Digit(t \div 10), ".", Digit(t % 10)>>
                  /\ 2 * (10 * sum - t * n) <= n
                  /\ 2 * (t * n - 10 * sum) <= n
            /\ RatingsOf(fnIn) = <<5, 5, 4>> =>
                  /\ x = JsString(<<"4", ".", "7">>)
                  /\ fnOut[1].ratingCount = 3

\* the aggregator has run on the ratings 5, 5, 4
C17_Witness ==
    /\ fnOut # <<>>
    /\ RatingsOf(fnIn) = <<5, 5, 4>>
    /\ fnOut[1].averageRating = JsString(<<"4", ".", "7">>)
    /\ fnOut[1].ratingCount = 3

---------------------------------------------------------------------------
\* the snapshot of a request holds no rating and no review
ZeroState(r) == snap[r].ratingCount = 0 /\ snap[r].reviews = <<>>

(* C18: every snapshot the aggregator returns holds averageRating as a     *)
(* decimal fixed to one place, a digit, a point and a digit, on the path   *)
(* with ratings, on the path without a valid rating and on the fallback    *)
(* path; so any two documents rendered from a snapshot without ratings and *)
(* reviews are the same, whether the store was empty or a query failed.    *)
C18_OneRepresentation ==
    /\ \A r \in Requests :
          snap[r] # NoSnapshot =>
              /\ IsString(snap[r].averageRating)
              /\ Len(snap[r].averageRating.v) = 3
              /\ snap[r].averageRating.v[2] = "."
    /\ \A r1, r2 \in Requests :
          ( /\ pc[r1] = "RESPOND_FRESH" /\ pc[r2] = "RESPOND_FRESH"
            /\ ZeroState(r1) /\ ZeroState(r2) )
          => res[r1].body = res[r2].body

---------------------------------------------------------------------------
(* The star renderer on every averageRating of at most 5: the number 0 of  *)
(* the fallback snapshot and every string toFixed(1) writes from 0.0 to    *)
(* 5.0                                                                     *)

MaxAverageTenths == 50

StarInputs ==
    {JsNumber(0)}
    \cup {JsString(<<Digit(t \div 10), ".", Digit(t % 10)>>) : t \in 0..MaxAverageTenths}

InitStars == InitIdle /\ fnIn \in StarInputs

\* renderStars(averageRating)
CallRenderStars ==
    /\ fnOut = <<>>
    /\ fnOut' = <<renderStars(fnIn)>>
    /\ UNCHANGED <<variant, now, ticks, storeVars, handlerVars, fnIn, apiVars>>

SpecStars == InitStars /\ [][CallRenderStars]_vars

\* k filled glyphs followed by 5 - k empty ones
Stars(k) == [i \in 1..5 |-> IF i <= k THEN "*" ELSE "-"]

(* C19: for the averageRating 0 and every one-decimal averageRating up to  *)
(* 5, renderStars returns 5 glyphs, the filled ones first, as many filled  *)
(* as the integer nearest to the rating, the larger one on a tie; 3.4      *)
(* gives 3 filled glyphs, 0 gives none and 5 gives 5.                      *)
C19_StarsRoundHalfUp ==
    fnOut # <<>> =>
        LET t == TenthsOf(fnIn)
        IN  /\ Len(fnOut[1]) = 5
            /\ \E k \in 0..5 :
                  /\ fnOut[1] = Stars(k)
                  /\ 10 * k - 5 <= t /\ t < 10 * k + 5
            /\ t = 34 => fnOut[1] = <<"*", "*", "*", "-", "-">>
            /\ t = 0 => fnOut[1] = <<"-", "-", "-", "-", "-">>
            /\ t = 50 => fnOut[1] = <<"*", "*", "*", "*", "*">>

\* the renderer has run on a tie, 3.5, and filled four glyphs
C19_Witness ==
    /\ fnIn = JsString(<<"3", ".", "5">>)
    /\ fnOut = << <<"*", "*", "*", "*", "-">> >>

---------------------------------------------------------------------------
(* The aggregator followed by the page assembler, on every short sequence  *)
(* of ratings and on the fallback of a failed query                        *)

InitAssemble == InitIdle /\ fnIn \in RatingLists(MaxRatings)

\* the queries return: the snapshot of the try block and its document
CallAssemble ==
    /\ fnOut = <<>>
    /\ fnOut' = <<aggregate(fnIn, <<>>), html(variant, aggregate(fnIn, <<>>))>>
    /\ UNCHANGED <<variant, now, ticks, storeVars, handlerVars, fnIn, apiVars>>

\* a query fails: the snapshot of the catch block and its document
CallAssembleFallback ==
    /\ fnOut = <<>>
    /\ fnOut' = <<fallbackSnapshot, html(variant, fallbackSnapshot)>>
    /\ UNCHANGED <<variant, now, ticks, storeVars, handlerVars, fnIn, apiVars>>

NextAssemble == CallAssemble \/ CallAssembleFallback

SpecAssemble == InitAssemble /\ [][NextAssemble]_vars

(* C20: the document rendered from a snapshot of the aggregator holds the  *)
(* rating-display block exactly when the snapshot's ratingCount is above   *)
(* 0: the guard averageRating >= 1 never hides the block of a snapshot     *)
(* that counts a rating.                                                   *)
C20_RatingDisplayIffCounted ==
    fnOut # <<>> =>
        (Occurs(C_ratingOpen, fnOut[2]) <=> fnOut[1].ratingCount > 0)

\* the lowest average there is, 1.0 of three ratings, and its block is shown
C20_Witness ==
    /\ fnOut # <<>>
    /\ RatingsOf(fnIn) = <<1, 1, 1>>
    /\ fnOut[1].averageRating = JsString(<<"1", ".", "0">>)
    /\ Occurs(C_ratingOpen, fnOut[2])
    /\ Occurs(C_ratingClose, fnOut[2])

---------------------------------------------------------------------------
\* a request that has reached the app
Arrived(q) == api[q].pc # "IDLE"

(* C12: in both entry points every GET / is answered by the SSR handler:   *)
(* no layer registered before it, the static-file middleware included,     *)
(* and not the catch-all GET *, answers it instead.                        *)
C12_RootIsAnsweredBySSR ==
    \A q \in ApiRequests :
        (Arrived(q) /\ api[q].method = "GET" /\ api[q].url = "/")
        => api[q].route = "homePageSSR"

WriteUrls == SaveUrls \cup {"/api/lic/ratings"}

Stores == <<feedbacks, queries, reviews, ratings>>

(* C13: a POST to a write endpoint whose body lacks a required field is    *)
(* answered 400 in the step in which it arrives, that step leaves the four *)
(* collections as they are, whatever they hold and whatever other requests *)
(* are under way, and an answered request takes no further step.           *)
C13_MissingFieldIs400 ==
    [][\A q \in ApiRequests :
          /\ ( /\ ~Arrived(q) /\ api'[q].pc # "IDLE"
               /\ api'[q].method = "POST" /\ api'[q].url \in WriteUrls
               /\ MissingField(api'[q].url, api'[q].body) )
             => /\ api'[q].pc = "DONE"
                /\ api'[q].status = 400
                /\ Stores' = Stores
          /\ api[q].pc = "DONE" => api'[q] = api[q]]_vars

\* a rating without its value was refused, and the store holds the rating
\* of another request that was applied
C13_Witness ==
    \E q1, q2 \in ApiRequests :
        /\ api[q1].url = "/api/lic/ratings" /\ api[q1].status = 400
        /\ ~Falsy(api[q1].body.userId) /\ api[q1].body.rating = JsUndefined
        /\ api[q2].url = "/api/lic/ratings" /\ api[q2].status = 200
        /\ Len(ratings) = 1

\* no two ratings of one userId
OnePerUser(rs) == \A i, j \in DOMAIN rs : rs[i].userId = rs[j].userId => i = j

C15_OutOfRangeIsStored ==
    \A q \in ApiRequests :
        ( /\ Arrived(q) /\ api[q].route = "postRatings"
          /\ ~Falsy(api[q].body.userId)
          /\ api[q].body.rating.t = "number"
          /\ api[q].body.rating.v \notin 1..5 )
        => /\ api[q].status # 400
           /\ api[q].status = 200 => HasRating(ratings, api[q].body.userId.v)
           /\ aggregate(ratings, <<>>).ratingCount = Len(InRange(ratings))

ListUrls == {"/api/lic/feedbacks", "/api/lic/queries", "/api/lic/reviews", "/api/lic/ratings"}

(* C16: in both entry points a GET of feedbacks, queries, reviews or       *)
(* ratings is answered by its list route, never by the catch-all GET *,    *)
(* and an answer 200 holds the documents of the collection as the store    *)
(* held them: the records stored by then, in order.                        *)
C16_ListRoutes ==
    \A q \in ApiRequests :
        (Arrived(q) /\ api[q].method = "GET" /\ api[q].url \in ListUrls)
        => /\ api[q].route = "getList"
           /\ api[q].status = 200 =>
                /\ Len(api[q].json) <= Len(Collection(api[q].url))
                /\ \A i \in DOMAIN api[q].json :
                     IF api[q].url = "/api/lic/ratings"
                     THEN api[q].json[i].userId = ratings[i].userId
                     ELSE api[q].json[i] = Collection(api[q].url)[i]

---------------------------------------------------------------------------
\* 'ssr:home:' followed by the start of the bucket that holds the time t
KeyOfBucket(k, t) ==
    /\ Len(k) = 2
    /\ k[1] = "ssr:home:"
    /\ k[2] % BucketMs = 0
    /\ k[2] <= t /\ t < k[2] + BucketMs

(* C21: in the copies with time-bucketed keys, the cache key of every      *)
(* request is 'ssr:home:' followed by a multiple B of 600000 with          *)
(* B <= t < B + 600000 for the time t at which the request began, and      *)
(* every key the cache holds is 'ssr:home:' followed by a multiple of      *)
(* 600000; also when the clock advances between the handler's two reads of *)
(* it and while the handler awaits the store.                              *)
C21_KeyIsBucketStart ==
    variant # "homePageSSR" =>
        /\ \A r \in Requests : key[r] # <<>> => KeyOfBucket(key[r], arrived[r])
        /\ \A k \in DOMAIN cache : k[1] = "ssr:home:" /\ k[2] % BucketMs = 0

---------------------------------------------------------------------------
(* What a browser reads from an attribute value: the entities decoded *)

StaticChunks ==
    {C_navHero, C_ratingOpen, C_ratingMid, C_ratingOf, C_ratingClose, C_middle,
     C_listOpen, C_itemOpen, C_itemMid, C_itemClose, C_listCloseInvite, C_listClose,
     C_noReviewsInvite, C_noReviews, C_footer}

\* the chunk of static markup that an escaped chunk decodes to
unescapeStatic(tok) ==
    IF \E c \in StaticChunks : escapeStatic(c) = tok
    THEN CHOOSE c \in StaticChunks : escapeStatic(c) = tok
    ELSE tok

StartsWith(s, p) == Len(s) >= Len(p) /\ SubSeq(s, 1, Len(p)) = p

Drop(s, n) == SubSeq(s, n + 1, Len(s))

RECURSIVE decodeHTML(_)
decodeHTML(s) ==
    IF s = <<>> THEN <<>>
    ELSE IF StartsWith(s, AMP) THEN <<"&">> \o decodeHTML(Drop(s, Len(AMP)))
    ELSE IF StartsWith(s, LT) THEN <<"<">> \o decodeHTML(Drop(s, Len(LT)))
    ELSE IF StartsWith(s, GT) THEN <<">">> \o decodeHTML(Drop(s, Len(GT)))
    ELSE IF StartsWith(s, QUOT) THEN <<"\"">> \o decodeHTML(Drop(s, Len(QUOT)))
    ELSE IF StartsWith(s, APOS) THEN <<"'">> \o decodeHTML(Drop(s, Len(APOS)))
    ELSE IF StartsWith(s, NUM39) THEN <<"'">> \o decodeHTML(Drop(s, Len(NUM39)))
    ELSE <<unescapeStatic(Head(s))>> \o decodeHTML(Tail(s))

(* C22: in src/homePageSSR.js, for every fragment htmlContent the handler  *)
(* renders, decoding the entities of the data-html attribute value         *)
(* escapeHTML(htmlContent) gives back htmlContent: review text that was    *)
(* escaped into entities in the fragment is still escaped after the        *)
(* attribute is decoded.                                                   *)
C22_DataHtmlRoundTrip ==
    \A r \in Requests :
        (variant = "homePageSSR" /\ pc[r] = "RESPOND_FRESH")
        => decodeHTML(escapeHTML(variant, JsString(htmlContent(variant, snap[r]))))
           = htmlContent(variant, snap[r])

---------------------------------------------------------------------------
\* request r begins in this step
Begins(r) == pc[r] = "IDLE" /\ pc'[r] # "IDLE"

(* C23: a request that finds its key in the cache queries no collection,   *)
(* renders nothing and leaves the cache as it is; and a request that       *)
(* begins after another one was answered with a freshly rendered document, *)
(* in the bucket in which that one began, does not run the aggregator      *)
(* again.                                                                  *)
C23_HitDoesNoWork ==
    [][/\ \A r \in Requests :
            (Begins(r) /\ cacheHas(cache, key'[r]))
            => /\ pc'[r] \in {"RESPOND_CACHED", "REJECTED"}
               /\ cache' = cache
               /\ fetched'[r] = fetched[r] /\ snap'[r] = snap[r]
       /\ \A r1, r2 \in Requests :
            ( /\ pc[r1] = "RESPOND_FRESH"
              /\ Begins(r2)
              /\ Bucket(arrived[r1]) = Bucket(arrived'[r2]) )
            => pc'[r2] # "AGGREGATE_RATINGS"]_vars

\* request r is answered with the error page in this step
EndsInError(r) == pc[r] # "RESPOND_ERROR" /\ pc'[r] = "RESPOND_ERROR"

(* C24: the step in which a request ends in RESPOND_ERROR leaves the cache *)
(* as it was, the error page is never a cache entry, and a request that    *)
(* begins with the key of a request that ended in RESPOND_ERROR, a key     *)
(* that was not cached when that request looked it up, renders again       *)
(* unless some other request has stored the key in between.                *)
C24_ErrorLeavesCache ==
    [][/\ \A r \in Requests : EndsInError(r) => cache' = cache
       /\ \A k \in DOMAIN cache' : cache'[k] # errorHtml(variant)
       /\ \A r1, r2 \in Requests :
            ( /\ pc[r1] = "RESPOND_ERROR"
              /\ Begins(r2)
              /\ key'[r2] = key[r1]
              /\ \A r3 \in Requests \ {r1} : ~ Occurs("STORE_CACHE", path[r3]) )
            => pc'[r2] = "AGGREGATE_RATINGS"]_vars

\* the document rendered from the snapshot of the catch of fetchRatingsAndReviews
FallbackDoc == html(variant, fallbackSnapshot)

(* C25: a miss whose store read failed and that is answered 200 stores the *)
(* document rendered from the fallback snapshot under its key; from then   *)
(* on that document stays the entry of the key, and a request that begins  *)
(* with the key queries no collection and, when it is answered from the    *)
(* cache, is answered with that document.                                  *)
C25_FallbackIsCached ==
    [][/\ \A r \in Requests :
            (pc[r] = "ASSEMBLE" /\ StoreFailed(r) /\ pc'[r] = "RESPOND_FRESH")
            => /\ cacheHas(cache', key[r])
               /\ cache'[key[r]] = FallbackDoc
       /\ \A k \in DOMAIN cache : cache[k] = FallbackDoc =>
            /\ cache'[k] = FallbackDoc
            /\ \A r \in Requests : (Begins(r) /\ key'[r] = k) =>
                 /\ pc'[r] # "AGGREGATE_RATINGS"
                 /\ fetched'[r] = fetched[r]
                 /\ pc'[r] = "RESPOND_CACHED" => res'[r].body = FallbackDoc]_vars

===========================================================================
